---------------------------- MODULE Spec2Model ----------------------------
(***************************************************************************)
(* Model of lib/server.js: the HTTP service bootstrap (module.exports),    *)
(* its CORS origin list, and the onPreResponse hook prettyPrintErrors.     *)
(*                                                                         *)
(* JavaScript values are encoded as strings: "undefined", "null", "0",     *)
(* "false", "" (the empty string), and opaque names for objects.  A        *)
(* property an object does not have is "absent"; reading it gives          *)
(* "undefined".                                                            *)
(***************************************************************************)
EXTENDS Integers, Sequences, FiniteSets, TLC

VARIABLES
    \* ---- bootstrap (module.exports) ----
    config,        \* the factories handed in: shape of buildFactory / jobFactory
    ecosystem,     \* config.ecosystem: [ui, allowCors]
    server,        \* the Hapi.Server built by the run
    plugins,       \* server.plugins after registration: [auth, shutdown]
    buildFactory,  \* mutable slots of server.app.buildFactory
    jobFactory,    \* mutable slots of server.app.jobFactory
    registrar,     \* registrationMan's promise: [state, err]
    start,         \* server.start()'s promise: [state, err]
    promise,       \* the promise module.exports returned: [state, value]
    pc,            \* position of the run
    trace,         \* every call and write the run performed, in order
    logs,          \* records written through screwdriver-logger
    \* ---- CORS list built more than once from one configuration ----
    policies,      \* the cors objects built so far
    \* ---- prettyPrintErrors ----
    request,       \* request.response of the request being answered
    reqLog,        \* request.log records of that request
    reply,         \* what the hook answered: continue, or a body and a code
    reqTrace,      \* order of the hook's calls
    \* ---- the shutdown coordinator and its task (lines 148-157) ----
    shutdownTasks, \* arguments of each server.plugins.shutdown.handler call
    taskRuns,      \* times the coordinator has invoked the task
    cleanUp,       \* jobFactory.cleanUp()'s promise in the current task run
    taskPromise,   \* the promise the task returned in the current run
    taskTrace,     \* calls of the current task run, in order
    \* ---- the token generators (lines 136-147) ----
    tokenCalls,    \* times a token generator has been invoked
    tokenCall,     \* the latest invocation: generator, arguments, outcome
    authCalls      \* calls the latest invocation made on server.plugins.auth

vars == <<config, ecosystem, server, plugins, buildFactory, jobFactory,
          registrar, start, promise, pc, trace, logs, policies,
          request, reqLog, reply, reqTrace, shutdownTasks, taskRuns, cleanUp,
          taskPromise, taskTrace, tokenCalls, tokenCall, authCalls>>

bootVars == <<config, server, plugins, buildFactory, jobFactory,
              registrar, start, promise, pc, trace, logs, shutdownTasks>>
errVars == <<request, reqLog, reply, reqTrace>>
hookVars == <<policies, request, reqLog, reply, reqTrace>>
taskVars == <<taskRuns, cleanUp, taskPromise, taskTrace>>
callVars == <<tokenCalls, tokenCall, authCalls>>

----------------------------------------------------------------------------
(* Bounds and value sets *)

MaxExtraOrigins == 2
MaxBuilds == 2
MaxTokenCalls == 2
MaxTaskRuns == 2

Origins == {"https://ui.example", "https://a.example", "https://b.example"}
UiOrigins == {"https://ui.example", "https://a.example"}
NonSequences == {"undefined", "null", "https://a.example", "{}"}
ServerIds == {"serverA", "serverB"}
Errors == {"install failed", "listen EADDRINUSE"}
LoggerReturns == {"undefined", "logger"}

SeqsUpTo(S, n) == UNION {[1..k -> S] : k \in 0..n}

\* config.ecosystem.allowCors: absent, some value that is no array, or an array
AllowCorsValues ==
    {[kind |-> "absent", value |-> "undefined", items |-> <<>>]}
    \cup {[kind |-> "other", value |-> v, items |-> <<>>] : v \in NonSequences}
    \cup {[kind |-> "array", value |-> "array", items |-> s] :
             s \in SeqsUpTo(Origins, MaxExtraOrigins)}

Ecosystems == [ui : UiOrigins, allowCors : AllowCorsValues]

\* JavaScript values
Falsy == {"undefined", "null", "0", "false", ""}
Truthy(v) == v \notin Falsy
\* reading a property: one the object lacks reads as undefined
Get(v) == IF v = "absent" THEN "undefined" ELSE v

----------------------------------------------------------------------------
(* CORS origin list, lines 74-86 *)

\* Array.isArray(config.ecosystem.allowCors)
IsArray(v) == v.kind = "array"

corsOriginsAlways(eco) == <<eco.ui>> \o eco.allowCors.items \o
                          (IF IsArray(eco.allowCors) THEN <<>> ELSE <<eco.allowCors.value>>)

\* let corsOrigins = [ui]; if (Array.isArray(allowCors)) corsOrigins = corsOrigins.concat(allowCors)
corsOrigins(eco) ==
    IF IsArray(eco.allowCors)
    THEN <<eco.ui>> \o eco.allowCors.items
    ELSE <<eco.ui>>

cors(eco) ==
    [origin |-> corsOrigins(eco),
     additionalExposedHeaders |-> <<"x-more-data">>,
     credentials |-> TRUE]

\* Array.prototype.concat returns a new array: config.ecosystem is not written
ecosystemAfterBuild(eco) == eco


----------------------------------------------------------------------------
(* Bootstrap, module.exports, lines 70-164 *)

FactoryShapes == {"absent", "noExecutor", "ok"}   \* config.buildFactory / config.jobFactory
ShutdownShapes == {"absent", "ok", "throws"}      \* server.plugins.shutdown
AuthShapes == {"absent", "ok"}                    \* server.plugins.auth

NoServer ==
    [id |-> "none", cors |-> <<>>, app |-> FALSE, connection |-> FALSE,
     ext |-> <<>>, events |-> {}]
NoPlugins == [registered |-> FALSE, auth |-> "absent", shutdown |-> "absent"]
NoSlots == [apiUri |-> "unset", tokenGen |-> "unset", executorTokenGen |-> "unset"]
Pending == [state |-> "pending", err |-> "none"]
NotCalled == [state |-> "notCalled", err |-> "none"]
NoPromise == [state |-> "none", value |-> "none"]

\* server.info.uri, known once server.connection(config.httpd) has run
InfoUri == "http://api.example:8080"

\* lines 74-128: everything done before the registrar is invoked, in order
ConfiguringSteps ==
    <<"cors", "new Hapi.Server", "server.app", "server.connection",
      "server.ext", "server.event">>

Configured(id, eco) ==
    [id |-> id, cors |-> cors(eco).origin, app |-> TRUE, connection |-> TRUE,
     ext |-> <<[event |-> "onPreResponse", method |-> "prettyPrintErrors"]>>,
     events |-> {"build_status"}]

\* lines 135-160 with server.start() hoisted above the shutdown registration
WiringOrderStartEarly ==
    <<"buildFactory.apiUri", "buildFactory.tokenGen", "buildFactory.executor.tokenGen",
      "jobFactory.apiUri", "jobFactory.tokenGen", "jobFactory.executor.userTokenGen",
      "server.start", "shutdown.handler">>

\* lines 135-160: the statements of the .then callback, in program order
WiringOrder ==
    <<"buildFactory.apiUri", "buildFactory.tokenGen", "buildFactory.executor.tokenGen",
      "jobFactory.apiUri", "jobFactory.tokenGen", "jobFactory.executor.userTokenGen",
      "shutdown.handler", "server.start">>

WiringWrites ==
    {"buildFactory.apiUri", "buildFactory.tokenGen", "buildFactory.executor.tokenGen",
     "jobFactory.apiUri", "jobFactory.tokenGen", "jobFactory.executor.userTokenGen",
     "shutdown.handler"}

\* line 148: if (server.plugins.shutdown)
StepSkipped(step, plg) == step = "shutdown.handler" /\ plg.shutdown = "absent"

\* the wiring binding server.plugins.auth's methods when it installs a closure
StepThrowsReadingAuth(step, cfg, plg) ==
    CASE step = "buildFactory.apiUri" -> cfg.buildFactory = "absent"
      [] step = "buildFactory.tokenGen" -> cfg.buildFactory = "absent" \/ plg.auth = "absent"
      [] step = "buildFactory.executor.tokenGen" -> cfg.buildFactory # "ok"
      [] step = "jobFactory.apiUri" -> cfg.jobFactory = "absent"
      [] step = "jobFactory.tokenGen" -> cfg.jobFactory = "absent" \/ plg.auth = "absent"
      [] step = "jobFactory.executor.userTokenGen" -> cfg.jobFactory # "ok"
      [] step = "shutdown.handler" -> plg.shutdown = "throws"
      [] OTHER -> FALSE

\* A statement of the callback throws: a property is set on undefined
\* (TypeError), or the coordinator's handler throws.
StepThrows(step, cfg, plg) ==
    CASE step \in {"buildFactory.apiUri", "buildFactory.tokenGen"} -> cfg.buildFactory = "absent"
      [] step = "buildFactory.executor.tokenGen" -> cfg.buildFactory # "ok"
      [] step \in {"jobFactory.apiUri", "jobFactory.tokenGen"} -> cfg.jobFactory = "absent"
      [] step = "jobFactory.executor.userTokenGen" -> cfg.jobFactory # "ok"
      [] step = "shutdown.handler" -> plg.shutdown = "throws"
      [] OTHER -> FALSE

\* The calls and writes the callback performs, stopping at the first throw.
\* A throwing assignment writes nothing; a throwing handler was still called.
RECURSIVE RunSteps(_, _, _)
RunSteps(steps, cfg, plg) ==
    IF steps = <<>> THEN <<>>
    ELSE LET s == Head(steps) IN
         IF StepSkipped(s, plg) THEN RunSteps(Tail(steps), cfg, plg)
         ELSE IF StepThrows(s, cfg, plg)
              THEN IF s = "shutdown.handler"
                   THEN <<s, "throw:shutdown handler failed">>
                   ELSE <<"throw:TypeError">>
              ELSE <<s>> \o RunSteps(Tail(steps), cfg, plg)

Range(s) == {s[i] : i \in 1..Len(s)}
Throws == {"throw:TypeError", "throw:shutdown handler failed"}
Threw(done) == Range(done) \cap Throws # {}
ThrownError(done) ==
    IF "throw:TypeError" \in Range(done) THEN "TypeError" ELSE "shutdown handler failed"

\* the executor given a closure of its own instead of the factory's
buildFactoryAfterOwnClosure(old, done) ==
    [apiUri |-> IF "buildFactory.apiUri" \in Range(done) THEN InfoUri ELSE old.apiUri,
     tokenGen |-> IF "buildFactory.tokenGen" \in Range(done)
                  THEN "closure:temporal" ELSE old.tokenGen,
     executorTokenGen |-> IF "buildFactory.executor.tokenGen" \in Range(done)
                          THEN "closure:temporal:2" ELSE old.executorTokenGen]

\* lines 135-140 and 142-147: the slots of a factory after the callback ran
buildFactoryAfter(old, done) ==
    [apiUri |-> IF "buildFactory.apiUri" \in Range(done) THEN InfoUri ELSE old.apiUri,
     tokenGen |-> IF "buildFactory.tokenGen" \in Range(done)
                  THEN "closure:temporal" ELSE old.tokenGen,
     executorTokenGen |-> IF "buildFactory.executor.tokenGen" \in Range(done)
                          THEN "closure:temporal" ELSE old.executorTokenGen]

jobFactoryAfter(old, done) ==
    [apiUri |-> IF "jobFactory.apiUri" \in Range(done) THEN InfoUri ELSE old.apiUri,
     tokenGen |-> IF "jobFactory.tokenGen" \in Range(done)
                  THEN "closure:user" ELSE old.tokenGen,
     executorTokenGen |-> IF "jobFactory.executor.userTokenGen" \in Range(done)
                          THEN "closure:user" ELSE old.executorTokenGen]

\* the task registered under another name
handlerCallsUnnamed(done) ==
    IF "shutdown.handler" \in Range(done)
    THEN <<[taskname |-> "cleanup", task |-> "closure:cleanup"]>>
    ELSE <<>>

\* lines 149-156: the argument of server.plugins.shutdown.handler, when called
handlerCalls(done) ==
    IF "shutdown.handler" \in Range(done)
    THEN <<[taskname |-> "executor-queue-cleanup", task |-> "closure:cleanup"]>>
    ELSE <<>>

\* a .catch on the registrar's promise that logs and swallows
registrarRejectedSwallowed(e) == [state |-> "resolved", value |-> "undefined"]

\* lines 131-132: .then(onFulfilled) has no rejection handler, so the
\* returned promise rejects with the registrar's error
registrarRejected(e) == [state |-> "rejected", value |-> e]

\* .then(() => undefined)
startResolvedNothing(srv) == [state |-> "resolved", value |-> "undefined"]

\* line 161: .then(() => server)
startResolved(srv) == [state |-> "resolved", value |-> srv.id]

\* the handler logs and rethrows
startRejectedRethrown(e, ret) ==
    [logs |-> <<[level |-> "error", message |-> "Failed to start server", err |-> e,
                returned |-> ret]>>,
     promise |-> [state |-> "rejected", value |-> e]]

\* line 162: .catch(err => logger.error('Failed to start server', err));
\* the promise resolves with whatever logger.error returned
startRejected(e, ret) ==
    [logs |-> <<[level |-> "error", message |-> "Failed to start server", err |-> e,
                returned |-> ret]>>,
     promise |-> [state |-> "resolved", value |-> ret]]

\* lines 132-163: an exception thrown inside the .then callback rejects the
\* promise that .then returned
callbackThrew(e) == [state |-> "rejected", value |-> e]

BootInit ==
    /\ config \in [buildFactory : FactoryShapes, jobFactory : FactoryShapes]
    /\ ecosystem \in Ecosystems
    /\ server = NoServer
    /\ plugins = NoPlugins
    /\ buildFactory = NoSlots
    /\ jobFactory = NoSlots
    /\ registrar = NotCalled
    /\ start = NotCalled
    /\ promise = NoPromise
    /\ pc = "Idle"
    /\ trace = <<>>
    /\ logs = <<>>
    /\ shutdownTasks = <<>>

\* lines 70-131: module.exports(config) up to the call of the registrar
Bootstrap(id) ==
    /\ pc = "Idle"
    /\ server' = Configured(id, ecosystem)
    /\ ecosystem' = ecosystemAfterBuild(ecosystem)
    /\ registrar' = Pending
    /\ promise' = [state |-> "pending", value |-> "none"]
    /\ trace' = trace \o ConfiguringSteps \o <<"registrationMan">>
    /\ pc' = "Registering"
    /\ UNCHANGED <<config, plugins, buildFactory, jobFactory, start, logs, shutdownTasks>>
    /\ UNCHANGED hookVars
    /\ UNCHANGED <<taskVars, callVars>>

\* registrationMan(server, config) rejects with e
RegistrarRejects(e) ==
    /\ pc = "Registering"
    /\ registrar' = [state |-> "rejected", err |-> e]
    /\ promise' = registrarRejected(e)
    /\ trace' = trace \o <<"registrationMan:rejected">>
    /\ pc' = "Failed"
    /\ UNCHANGED <<config, ecosystem, server, plugins, buildFactory, jobFactory, start, logs, shutdownTasks>>
    /\ UNCHANGED hookVars
    /\ UNCHANGED <<taskVars, callVars>>

\* registrationMan(server, config) resolves, having installed the plugins;
\* the .then callback (lines 132-163) runs to its end or to its first throw
RegistrarResolves(auth, shutdown) ==
    /\ pc = "Registering"
    /\ LET plg == [registered |-> TRUE, auth |-> auth, shutdown |-> shutdown]
           done == RunSteps(WiringOrder, config, plg)
       IN /\ plugins' = plg
          /\ registrar' = [state |-> "resolved", err |-> "none"]
          /\ trace' = trace \o <<"registrationMan:resolved">> \o done
          /\ buildFactory' = buildFactoryAfter(buildFactory, done)
          /\ jobFactory' = jobFactoryAfter(jobFactory, done)
          /\ shutdownTasks' = shutdownTasks \o handlerCalls(done)
          /\ IF Threw(done)
             THEN /\ promise' = callbackThrew(ThrownError(done))
                  /\ pc' = "Failed"
                  /\ start' = IF "server.start" \in Range(done) THEN Pending ELSE start
             ELSE /\ promise' = promise
                  /\ pc' = "Starting"
                  /\ start' = Pending
    /\ UNCHANGED <<config, ecosystem, server, logs>>
    /\ UNCHANGED hookVars
    /\ UNCHANGED <<taskVars, callVars>>

\* server.start() resolves
StartResolves ==
    /\ pc = "Starting"
    /\ start.state = "pending"
    /\ start' = [state |-> "resolved", err |-> "none"]
    /\ promise' = startResolved(server)
    /\ trace' = trace \o <<"server.start:resolved">>
    /\ pc' = "Running"
    /\ UNCHANGED <<config, ecosystem, server, plugins, buildFactory, jobFactory, registrar, logs, shutdownTasks>>
    /\ UNCHANGED hookVars
    /\ UNCHANGED <<taskVars, callVars>>

\* a failed start tried once more before giving up
StartRejectsRetries(e, ret) ==
    /\ pc = "Starting"
    /\ start.state = "pending"
    /\ logs' = logs \o startRejected(e, ret).logs
    /\ IF Len(logs) = 0
       THEN /\ start' = Pending
            /\ promise' = promise
            /\ trace' = trace \o <<"server.start:rejected", "logger.error", "server.start">>
            /\ pc' = "Starting"
       ELSE /\ start' = [state |-> "rejected", err |-> e]
            /\ promise' = startRejected(e, ret).promise
            /\ trace' = trace \o <<"server.start:rejected", "logger.error">>
            /\ pc' = "Failed"
    /\ UNCHANGED <<config, ecosystem, server, plugins, buildFactory, jobFactory, registrar, shutdownTasks>>
    /\ UNCHANGED hookVars
    /\ UNCHANGED <<taskVars, callVars>>

\* server.start() rejects with e; logger.error returns ret
StartRejects(e, ret) ==
    /\ pc = "Starting"
    /\ start.state = "pending"
    /\ start' = [state |-> "rejected", err |-> e]
    /\ logs' = logs \o startRejected(e, ret).logs
    /\ promise' = startRejected(e, ret).promise
    /\ trace' = trace \o <<"server.start:rejected", "logger.error">>
    /\ pc' = "Failed"
    /\ UNCHANGED <<config, ecosystem, server, plugins, buildFactory, jobFactory, registrar, shutdownTasks>>
    /\ UNCHANGED hookVars
    /\ UNCHANGED <<taskVars, callVars>>

----------------------------------------------------------------------------
(* The token generators installed by the wiring, lines 136-147 *)

Subjects == {"b1", "alice"}
Metadatas == {"{}", "{env:prod}"}
ScmContexts == {"gh", "gl"}
FourthArgs == {"absent", "3600"}               \* the caller's fourth argument, if any
AuthObjects == AuthShapes \cup {"replaced"}    \* what server.plugins.auth may hold later

NoProfile == [subject |-> "none", scmContext |-> "none", scope |-> <<>>, metadata |-> "none"]
NoToken == [profile |-> NoProfile, expiresIn |-> "none"]

\* the auth capability: the profile it builds from its four arguments
generateProfile(subject, scmContext, scope, metadata) ==
    [subject |-> subject, scmContext |-> scmContext, scope |-> scope, metadata |-> metadata]

\* the auth capability: the token it signs for a profile and an expiry
generateToken(profile, expiresIn) == [profile |-> profile, expiresIn |-> expiresIn]

ProfileCall(auth, subject, scmContext, scope, metadata) ==
    [on |-> auth, method |-> "generateProfile", subject |-> subject,
     scmContext |-> scmContext, scope |-> scope, metadata |-> metadata,
     profile |-> NoProfile, expiresIn |-> "absent", nargs |-> 4]

TokenCall(auth, profile, expiresIn, nargs) ==
    [on |-> auth, method |-> "generateToken", subject |-> "none",
     scmContext |-> "none", scope |-> <<>>, metadata |-> "none",
     profile |-> profile, expiresIn |-> expiresIn, nargs |-> nargs]

\* server.plugins.auth is undefined: reading .generateToken of it throws
\* before any argument is evaluated
NoAuth == [threw |-> "TypeError", calls |-> <<>>, result |-> NoToken]

\* the closure with metadata and scmContext handed over in the caller's order
buildTokenGenSwapped(auth, buildId, metadata, scmContext, expiresIn) ==
    IF auth = "absent" THEN NoAuth
    ELSE LET profile == generateProfile(buildId, metadata, <<"temporal">>, scmContext)
         IN [threw |-> "none",
             calls |-> <<ProfileCall(auth, buildId, metadata, <<"temporal">>, scmContext),
                         TokenCall(auth, profile, Get(expiresIn), 2)>>,
             result |-> generateToken(profile, Get(expiresIn))]

\* lines 136-139: buildFactory.tokenGen = (buildId, metadata, scmContext, expiresIn) =>
\*   auth.generateToken(auth.generateProfile(buildId, scmContext, ['temporal'], metadata), expiresIn)
buildTokenGen(auth, buildId, metadata, scmContext, expiresIn) ==
    IF auth = "absent" THEN NoAuth
    ELSE LET profile == generateProfile(buildId, scmContext, <<"temporal">>, metadata)
         IN [threw |-> "none",
             calls |-> <<ProfileCall(auth, buildId, scmContext, <<"temporal">>, metadata),
                         TokenCall(auth, profile, Get(expiresIn), 2)>>,
             result |-> generateToken(profile, Get(expiresIn))]

\* the closure copied from the build one: temporal scope, expiry passed on
jobTokenGenLikeBuild(auth, username, metadata, scmContext, fourth) ==
    buildTokenGen(auth, username, metadata, scmContext, fourth)

\* lines 143-146: jobFactory.tokenGen = (username, metadata, scmContext) =>
\*   auth.generateToken(auth.generateProfile(username, scmContext, ['user'], metadata))
jobTokenGen(auth, username, metadata, scmContext, fourth) ==
    IF auth = "absent" THEN NoAuth
    ELSE LET profile == generateProfile(username, scmContext, <<"user">>, metadata)
         IN [threw |-> "none",
             calls |-> <<ProfileCall(auth, username, scmContext, <<"user">>, metadata),
                         TokenCall(auth, profile, "absent", 1)>>,
             result |-> generateToken(profile, "undefined")]

\* lines 137 and 144: server.plugins.auth is looked up when the closure runs
authOf(plg) == plg.auth

\* buildFactory.tokenGen (or executor.tokenGen, the same closure) is called
InvokeBuildTokenGen(buildId, metadata, scmContext, expiresIn) ==
    /\ tokenCalls < MaxTokenCalls
    /\ buildFactory.tokenGen = "closure:temporal"
    /\ LET out == buildTokenGen(authOf(plugins), buildId, metadata, scmContext, expiresIn)
       IN /\ tokenCall' = [gen |-> "build", subject |-> buildId, metadata |-> metadata,
                           scmContext |-> scmContext, fourth |-> expiresIn,
                           threw |-> out.threw, result |-> out.result]
          /\ authCalls' = out.calls
    /\ tokenCalls' = tokenCalls + 1
    /\ UNCHANGED <<bootVars, ecosystem, hookVars, taskVars>>

\* jobFactory.tokenGen (or executor.userTokenGen, the same closure) is called
InvokeJobTokenGen(username, metadata, scmContext, fourth) ==
    /\ tokenCalls < MaxTokenCalls
    /\ jobFactory.tokenGen = "closure:user"
    /\ LET out == jobTokenGen(authOf(plugins), username, metadata, scmContext, fourth)
       IN /\ tokenCall' = [gen |-> "job", subject |-> username, metadata |-> metadata,
                           scmContext |-> scmContext, fourth |-> fourth,
                           threw |-> out.threw, result |-> out.result]
          /\ authCalls' = out.calls
    /\ tokenCalls' = tokenCalls + 1
    /\ UNCHANGED <<bootVars, ecosystem, hookVars, taskVars>>

\* after the wiring, server.plugins.auth is installed, replaced or removed
AuthInstalledLater(a) ==
    /\ plugins.registered
    /\ a # plugins.auth
    /\ plugins' = [plugins EXCEPT !.auth = a]
    /\ UNCHANGED <<config, ecosystem, server, buildFactory, jobFactory, registrar, start,
                   promise, pc, trace, logs, shutdownTasks>>
    /\ UNCHANGED <<hookVars, taskVars, callVars>>

----------------------------------------------------------------------------
(* The shutdown task registered by the wiring, lines 151-155 *)

CleanUpErrors == {"queue unreachable"}

\* the continuation resolving the task before it logs
afterCleanUpResolvedEarly ==
    [trace |-> <<"resolve", "logger.info">>,
     logs |-> <<[level |-> "info", message |-> "completed clean up tasks",
                 err |-> "none", returned |-> "discarded"]>>,
     promise |-> [state |-> "resolved", value |-> "undefined"]]

\* lines 153-154, after the await: logger.info(...), then resolve()
afterCleanUpResolved ==
    [trace |-> <<"logger.info", "resolve">>,
     logs |-> <<[level |-> "info", message |-> "completed clean up tasks",
                 err |-> "none", returned |-> "discarded"]>>,
     promise |-> [state |-> "resolved", value |-> "undefined"]]

\* line 152 when cleanUp() rejects: the await throws inside the async executor,
\* whose own promise rejects; resolve is not called and the executor has no
\* reject parameter, so the task's promise stays as it is
afterCleanUpRejected(p) == [trace |-> <<>>, logs |-> <<>>, promise |-> p]

\* the coordinator calls the registered task: the Promise executor runs up to
\* the await at line 152.  The coordinator waits for the promise of one run
\* before it runs the task again.
CoordinatorInvokesTask ==
    /\ taskRuns < MaxTaskRuns
    /\ shutdownTasks # <<>>
    /\ plugins.shutdown = "ok"
    /\ taskPromise.state # "pending"
    /\ taskRuns' = taskRuns + 1
    /\ cleanUp' = Pending
    /\ taskPromise' = [state |-> "pending", value |-> "none"]
    /\ taskTrace' = <<"jobFactory.cleanUp">>
    /\ UNCHANGED <<bootVars, ecosystem, hookVars, callVars>>

\* jobFactory.cleanUp() resolves and the executor continues after the await
CleanUpResolves ==
    /\ cleanUp.state = "pending"
    /\ cleanUp' = [state |-> "resolved", err |-> "none"]
    /\ taskTrace' = taskTrace \o <<"cleanUp:resolved">> \o afterCleanUpResolved.trace
    /\ logs' = logs \o afterCleanUpResolved.logs
    /\ taskPromise' = afterCleanUpResolved.promise
    /\ UNCHANGED <<config, ecosystem, server, plugins, buildFactory, jobFactory, registrar,
                   start, promise, pc, trace, shutdownTasks, taskRuns>>
    /\ UNCHANGED <<hookVars, callVars>>

\* jobFactory.cleanUp() rejects with e
CleanUpRejects(e) ==
    /\ cleanUp.state = "pending"
    /\ cleanUp' = [state |-> "rejected", err |-> e]
    /\ taskTrace' = taskTrace \o <<"cleanUp:rejected">> \o afterCleanUpRejected(taskPromise).trace
    /\ logs' = logs \o afterCleanUpRejected(taskPromise).logs
    /\ taskPromise' = afterCleanUpRejected(taskPromise).promise
    /\ UNCHANGED <<config, ecosystem, server, plugins, buildFactory, jobFactory, registrar,
                   start, promise, pc, trace, shutdownTasks, taskRuns>>
    /\ UNCHANGED <<hookVars, callVars>>

----------------------------------------------------------------------------
(* The cors object built repeatedly from one configuration, lines 74-86 *)

\* lines 74-86 run once more on the same config
BuildCors ==
    /\ Len(policies) < MaxBuilds
    /\ policies' = Append(policies, cors(ecosystem))
    /\ ecosystem' = ecosystemAfterBuild(ecosystem)
    /\ UNCHANGED bootVars
    /\ UNCHANGED <<taskVars, callVars>>
    /\ UNCHANGED errVars

----------------------------------------------------------------------------
(* prettyPrintErrors, lines 13-39 *)

StatusCodes == {404, 500, 503}
ErrNames == {"Not Found", "Internal Server Error"}
PayloadMessages == {"Not Found", "An internal server error occurred"}
Messages == {"Not Found", "db down"}
Stacks == {"absent", "", "Error: db down at handler"}
Datas == {"absent", "undefined", "null", "0", "false", "", "{reason:db}"}

\* request.response when it is a Boom error
BoomResponses ==
    [isBoom : {TRUE},
     statusCode : {0},
     payload : [statusCode : StatusCodes, error : ErrNames, message : PayloadMessages],
     message : Messages, stack : Stacks, data : Datas]

\* request.response when it is an ordinary response
PlainResponses ==
    [isBoom : {FALSE},
     statusCode : {200, 404},
     payload : {[statusCode |-> 0, error |-> "none", message |-> "none"]},
     message : {"none"}, stack : {"absent"}, data : {"absent"}]

NoRequest ==
    [isBoom |-> FALSE, statusCode |-> 0,
     payload |-> [statusCode |-> 0, error |-> "none", message |-> "none"],
     message |-> "none", stack |-> "absent", data |-> "absent"]

NoBody == [k \in {} |-> "undefined"]
NoReply == [kind |-> "none", body |-> NoBody, code |-> 0, continued |-> 0]

\* line 16
errName(err) == err.payload.error

errMessageFromPayload(err) == err.payload.message

\* line 17: const errMessage = err.message
errMessage(err) == err.message

\* line 18
statusCode(err) == err.payload.statusCode

\* line 19: const stack = err.stack || errMessage
stack(err) == IF Truthy(Get(err.stack)) THEN err.stack ELSE errMessage(err)

logsServerErrors(code) == code >= 500

\* line 21: if (statusCode === 500)
logs500(code) == code = 500

hasDataAttribute(err) == err.data # "absent"

\* line 31: if (err.data)
hasData(err) == Truthy(Get(err.data))

responseWithStack(err) ==
    [k \in {"statusCode", "error", "message", "stack"} |->
        CASE k = "statusCode" -> statusCode(err)
          [] k = "error" -> errName(err)
          [] k = "message" -> errMessage(err)
          [] k = "stack" -> stack(err)]

\* lines 25-33: the body, with data only when err.data is truthy
response(err) ==
    [k \in {"statusCode", "error", "message"}
           \cup (IF hasData(err) THEN {"data"} ELSE {}) |->
        CASE k = "statusCode" -> statusCode(err)
          [] k = "error" -> errName(err)
          [] k = "message" -> errMessage(err)
          [] k = "data" -> err.data]

\* the calls prettyPrintErrors makes on a Boom response, in order
boomCalls(err) ==
    (IF logs500(statusCode(err)) THEN <<"request.log">> ELSE <<>>)
    \o <<"reply", "code">>

\* the hook without the isBoom test: every response is rewritten
prettyPrintErrorsNoGuard(r) ==
    [reqLog |-> IF logs500(r.statusCode)
                THEN <<[tags |-> <<"server", "error">>, data |-> stack(r)]>>
                ELSE <<>>,
     reply |-> [kind |-> "response", body |-> response(r),
                code |-> r.statusCode, continued |-> 0],
     reqTrace |-> boomCalls(r)]

\* lines 13-39: the hook on one request
prettyPrintErrors(r) ==
    IF r.isBoom
    THEN [reqLog |-> IF logs500(statusCode(r))
                     THEN <<[tags |-> <<"server", "error">>, data |-> stack(r)]>>
                     ELSE <<>>,
          reply |-> [kind |-> "response", body |-> response(r),
                     code |-> statusCode(r), continued |-> 0],
          reqTrace |-> boomCalls(r)]
    ELSE [reqLog |-> <<>>,
          reply |-> [kind |-> "continue", body |-> NoBody,
                     code |-> r.statusCode, continued |-> 1],
          reqTrace |-> <<"reply.continue">>]

\* onPreResponse fires for a response that is a Boom error
HandleFailure(r) ==
    /\ request' = r
    /\ reqLog' = prettyPrintErrors(r).reqLog
    /\ reply' = prettyPrintErrors(r).reply
    /\ reqTrace' = prettyPrintErrors(r).reqTrace
    /\ UNCHANGED <<ecosystem, policies>>
    /\ UNCHANGED bootVars
    /\ UNCHANGED <<taskVars, callVars>>

\* onPreResponse fires for any other response
HandlePlain(r) ==
    /\ request' = r
    /\ reqLog' = prettyPrintErrors(r).reqLog
    /\ reply' = prettyPrintErrors(r).reply
    /\ reqTrace' = prettyPrintErrors(r).reqTrace
    /\ UNCHANGED <<ecosystem, policies>>
    /\ UNCHANGED bootVars
    /\ UNCHANGED <<taskVars, callVars>>

----------------------------------------------------------------------------
(* Specifications *)

NoCall ==
    [gen |-> "none", subject |-> "none", metadata |-> "none", scmContext |-> "none",
     fourth |-> "none", threw |-> "none", result |-> NoToken]

TaskIdle ==
    /\ taskRuns = 0
    /\ cleanUp = NotCalled
    /\ taskPromise = NoPromise
    /\ taskTrace = <<>>

CallIdle ==
    /\ tokenCalls = 0
    /\ tokenCall = NoCall
    /\ authCalls = <<>>

ErrIdle ==
    /\ request = NoRequest
    /\ reqLog = <<>>
    /\ reply = NoReply
    /\ reqTrace = <<>>

BootIdle ==
    /\ config = [buildFactory |-> "ok", jobFactory |-> "ok"]
    /\ server = NoServer
    /\ plugins = NoPlugins
    /\ buildFactory = NoSlots
    /\ jobFactory = NoSlots
    /\ registrar = NotCalled
    /\ start = NotCalled
    /\ promise = NoPromise
    /\ pc = "Idle"
    /\ trace = <<>>
    /\ logs = <<>>
    /\ shutdownTasks = <<>>

\* one bootstrap run
Init == BootInit /\ policies = <<>> /\ ErrIdle /\ TaskIdle /\ CallIdle

Next ==
    \/ \E id \in ServerIds : Bootstrap(id)
    \/ \E e \in Errors : RegistrarRejects(e)
    \/ \E a \in AuthShapes, sd \in ShutdownShapes : RegistrarResolves(a, sd)
    \/ StartResolves
    \/ \E e \in Errors, ret \in LoggerReturns : StartRejects(e, ret)

Spec == Init /\ [][Next]_vars

\* the cors object built from one configuration, more than once
InitCors ==
    BootIdle /\ ecosystem \in Ecosystems /\ policies = <<>> /\ ErrIdle /\ TaskIdle /\ CallIdle

NextCors == BuildCors

SpecCors == InitCors /\ [][NextCors]_vars

DefaultEcosystem ==
    [ui |-> "https://ui.example",
     allowCors |-> [kind |-> "absent", value |-> "undefined", items |-> <<>>]]

\* one bootstrap run, and the token generators it installed being called
InitCalls == Init /\ ecosystem = DefaultEcosystem

NextCalls ==
    \/ Next
    \/ \E id \in Subjects, md \in Metadatas, scm \in ScmContexts, x \in FourthArgs :
           InvokeBuildTokenGen(id, md, scm, x)
    \/ \E id \in Subjects, md \in Metadatas, scm \in ScmContexts, x \in FourthArgs :
           InvokeJobTokenGen(id, md, scm, x)
    \/ \E a \in AuthObjects : AuthInstalledLater(a)

SpecCalls == InitCalls /\ [][NextCalls]_vars

\* one bootstrap run, and the coordinator running the registered task
InitTask == Init /\ ecosystem = DefaultEcosystem

NextTask ==
    \/ Next
    \/ CoordinatorInvokesTask
    \/ CleanUpResolves
    \/ \E e \in CleanUpErrors : CleanUpRejects(e)

SpecTask == InitTask /\ [][NextTask]_vars

\* the same, with every enabled step eventually taken: the event loop runs
\* each continuation that is ready
SpecTaskFair == InitTask /\ [][NextTask]_vars /\ WF_vars(NextTask)

\* the response hook, request after request
InitErr ==
    /\ BootIdle
    /\ ecosystem = [ui |-> "https://ui.example",
                    allowCors |-> [kind |-> "absent", value |-> "undefined", items |-> <<>>]]
    /\ policies = <<>>
    /\ ErrIdle
    /\ TaskIdle
    /\ CallIdle

NextErr ==
    \/ \E r \in BoomResponses : HandleFailure(r)
    \/ \E r \in PlainResponses : HandlePlain(r)

SpecErr == InitErr /\ [][NextErr]_vars

----------------------------------------------------------------------------
(* Properties of the bootstrap, checked under Spec *)

Performed(ops) == Range(trace) \cap ops # {}
Before(a, b) ==
    \A j \in 1..Len(trace) : trace[j] = b => \E i \in 1..(j - 1) : trace[i] = a
StartFailureLog(e) ==
    \E ret \in LoggerReturns :
        logs = <<[level |-> "error", message |-> "Failed to start server",
                  err |-> e, returned |-> ret]>>

\* C1: when the Plugin Registrar rejects with error E, the bootstrap promise
\* rejects with that same E, no Post-Registration Wiring write is performed,
\* server.start is never invoked and the bootstrap logs nothing.
C1_RegistrarRejectionPropagates ==
    registrar.state = "rejected" =>
        /\ promise = [state |-> "rejected", value |-> registrar.err]
        /\ ~Performed(WiringWrites \cup {"server.start"})
        /\ buildFactory = NoSlots
        /\ jobFactory = NoSlots
        /\ start.state = "notCalled"
        /\ logs = <<>>

C1_Witness ==
    /\ pc = "Failed"
    /\ registrar = [state |-> "rejected", err |-> "install failed"]
    /\ promise.state = "rejected"

\* C2 as stated: when registration resolves, wiring completes and
\* server.start fails with E, the bootstrap promise resolves to undefined
\* after exactly one error record carrying 'Failed to start server' and E.
C2_StartFailureResolvesUndefined ==
    start.state = "rejected" =>
        /\ promise = [state |-> "resolved", value |-> "undefined"]
        /\ StartFailureLog(start.err)

\* C2 as amended: when registration resolves, wiring completes and
\* server.start fails with E, the bootstrap promise does not reject: it
\* resolves with the value logger.error returned (never the server), after
\* exactly one error record carrying 'Failed to start server' and E.
C2_StartFailureResolvesLoggerResult ==
    start.state = "rejected" =>
        /\ registrar.state = "resolved"
        /\ ~Performed(Throws)
        /\ StartFailureLog(start.err)
        /\ promise = [state |-> "resolved", value |-> logs[1].returned]
        /\ promise.value # server.id

C2_Witness ==
    /\ start = [state |-> "rejected", err |-> "listen EADDRINUSE"]
    /\ Len(logs) = 1
    /\ promise.state = "resolved"

\* C3: when registration resolves, wiring completes and server.start
\* succeeds, the bootstrap promise resolves with the server built during
\* Configuring (the one carrying the app namespace, the onPreResponse hook and
\* the build_status event), and no error is logged.
C3_StartSuccessResolvesServer ==
    start.state = "resolved" =>
        /\ registrar.state = "resolved"
        /\ server.id \in ServerIds
        /\ promise = [state |-> "resolved", value |-> server.id]
        /\ server.app
        /\ server.ext = <<[event |-> "onPreResponse", method |-> "prettyPrintErrors"]>>
        /\ "build_status" \in server.events
        /\ logs = <<>>

C3_Witness ==
    /\ pc = "Running"
    /\ start.state = "resolved"
    /\ promise.value = "serverB"

\* C4: every run goes Configuring (server built, app namespace set, hook
\* attached, build_status declared) -> registrar invoked -> registrar resolved
\* -> wiring -> server.start invoked: no wiring write precedes the registrar's
\* resolution, and server.start is invoked only after every wiring step,
\* the conditional shutdown registration included.
C4_FixedStepOrder ==
    /\ trace # <<>> =>
           SubSeq(trace, 1, Len(ConfiguringSteps) + 1)
               = ConfiguringSteps \o <<"registrationMan">>
    /\ Before("registrationMan", "registrationMan:resolved")
    /\ \A w \in WiringWrites \cup {"server.start"} : Before("registrationMan:resolved", w)
    /\ \A w \in WiringWrites \ {"shutdown.handler"} : Before(w, "server.start")
    /\ plugins.shutdown # "absent" => Before("shutdown.handler", "server.start")
    /\ \A j \in 1..Len(trace) : trace[j] = "server.start" =>
           \A i \in (j + 1)..Len(trace) : trace[i] \notin WiringWrites

C4_Witness ==
    /\ pc = "Starting"
    /\ plugins.shutdown = "ok"
    /\ Performed({"server.start"})
    /\ Performed({"shutdown.handler"})

\* C5 as stated: the bootstrap promise rejects only when the Plugin Registrar
\* rejected; when the registrar resolved, whatever fails afterwards (a wiring
\* step throwing, server.start failing) does not reject the promise and ends
\* as a log record.
C5_OnlyRegistrationRejects ==
    /\ promise.state = "rejected" => registrar.state = "rejected"
    /\ (registrar.state = "resolved" /\ pc = "Failed") =>
           (promise.state = "resolved" /\ Len(logs) = 1)

\* C5 as amended: the bootstrap promise rejects only when the Plugin Registrar
\* rejected or a wiring step threw after it resolved (the thrown error is
\* propagated and nothing is logged); a server.start failure never rejects
\* the promise and ends as a log record.
C5_RejectsOnRegistrationOrWiring ==
    /\ promise.state = "rejected" =>
           \/ registrar.state = "rejected"
           \/ /\ registrar.state = "resolved"
              /\ Performed(Throws)
              /\ promise.value \in {"TypeError", "shutdown handler failed"}
              /\ logs = <<>>
    /\ start.state = "rejected" =>
           (promise.state = "resolved" /\ StartFailureLog(start.err))

C5_Witness ==
    /\ registrar.state = "resolved"
    /\ pc = "Failed"
    /\ promise = [state |-> "rejected", value |-> "TypeError"]

Count(op) == Cardinality({i \in 1..Len(trace) : trace[i] = op})
SlotWrites == WiringWrites \ {"shutdown.handler"}
HandlerCalledOnceByName ==
    /\ Len(shutdownTasks) = 1
    /\ shutdownTasks[1].taskname = "executor-queue-cleanup"
    /\ Count("shutdown.handler") = 1

\* C14 as stated: in a run whose registration resolved, shutdown.handler is
\* called exactly once, with task name 'executor-queue-cleanup', when the
\* plugin stage installed a shutdown capability, and never when it is absent;
\* in both cases the run goes on to invoke server.start.
C14_ShutdownTaskRegistered ==
    registrar.state = "resolved" =>
        /\ plugins.shutdown # "absent" => HandlerCalledOnceByName
        /\ plugins.shutdown = "absent" => shutdownTasks = <<>>
        /\ Performed({"server.start"})

\* C14 as amended: in a run whose registration resolved and whose six wiring
\* assignments completed, shutdown.handler is called exactly once, with task
\* name 'executor-queue-cleanup', when the plugin stage installed a shutdown
\* capability, and it is never called when that capability is absent; the run
\* then goes on to invoke server.start unless the handler call itself throws.
C14_ShutdownTaskRegisteredAfterWiring ==
    /\ plugins.shutdown = "absent" => (shutdownTasks = <<>> /\ Count("shutdown.handler") = 0)
    /\ shutdownTasks # <<>> => HandlerCalledOnceByName
    /\ (registrar.state = "resolved" /\ SlotWrites \subseteq Range(trace)) =>
           /\ plugins.shutdown # "absent" => HandlerCalledOnceByName
           /\ Performed({"server.start"}) <=> ~Performed({"throw:shutdown handler failed"})
           /\ Performed({"throw:shutdown handler failed"}) <=> plugins.shutdown = "throws"

C14_Witness ==
    /\ registrar.state = "resolved"
    /\ plugins.shutdown = "ok"
    /\ Len(shutdownTasks) = 1
    /\ start.state = "pending"

SlotsAssigned ==
    /\ buildFactory.apiUri = InfoUri
    /\ jobFactory.apiUri = InfoUri
    /\ buildFactory.tokenGen # "unset"
    /\ jobFactory.tokenGen # "unset"
    /\ buildFactory.executorTokenGen = buildFactory.tokenGen
    /\ jobFactory.executorTokenGen = jobFactory.tokenGen

\* C15: in every state in which server.start has been invoked, apiUri,
\* tokenGen and the executor's token generator are assigned on both factories,
\* each executor slot holds the same closure as its factory's tokenGen, each
\* field has been written exactly once, and the bootstrap writes none of them,
\* nor the app namespace, afterwards.
C15_WiredBeforeStart ==
    /\ [](/\ Performed({"server.start"}) =>
                /\ SlotsAssigned
                /\ server.app
                /\ \A w \in SlotWrites : Count(w) = 1
                /\ \A j \in 1..Len(trace) : trace[j] = "server.start" =>
                       \A i \in j..Len(trace) : trace[i] \notin SlotWrites \cup {"server.app"}
          /\ \A w \in SlotWrites \cup {"server.app"} : Count(w) <= 1)
    /\ [][Performed({"server.start"}) =>
             (buildFactory' = buildFactory /\ jobFactory' = jobFactory /\ server' = server)]_vars

C15_Witness ==
    /\ pc = "Running"
    /\ SlotsAssigned
    /\ buildFactory.executorTokenGen = "closure:temporal"
    /\ jobFactory.executorTokenGen = "closure:user"

\* C16: when a wiring step fails after the registrar resolved (a factory
\* without execution engine, the shutdown handler throwing), the bootstrap
\* ends in Failed: server.start is never invoked and the server is never
\* handed to the caller.
C16_WiringFailureEndsFailed ==
    Performed(Throws) =>
        /\ registrar.state = "resolved"
        /\ pc = "Failed"
        /\ ~Performed({"server.start"})
        /\ start.state = "notCalled"
        /\ promise.state = "rejected"
        /\ promise.value # server.id

C16_Witness ==
    /\ Performed({"throw:shutdown handler failed"})
    /\ config = [buildFactory |-> "ok", jobFactory |-> "ok"]
    /\ pc = "Failed"

\* C18: a run is one-shot: the Plugin Registrar is invoked exactly once and
\* server.start at most once, neither is invoked again after a rejection or
\* failure, and once the run is Running or Failed it takes no further step.
C18_OneShot ==
    /\ [](/\ pc # "Idle" => Count("registrationMan") = 1
          /\ Count("registrationMan") <= 1
          /\ Count("server.start") <= 1
          /\ registrar.state = "rejected" => Count("server.start") = 0
          /\ start.state \in {"resolved", "rejected"} => pc \in {"Running", "Failed"})
    /\ [][(pc \in {"Running", "Failed"}) => (bootVars' = bootVars)]_vars

C18_Witness ==
    /\ pc = "Failed"
    /\ start.state = "rejected"
    /\ Count("server.start") = 1
    /\ Count("registrationMan") = 1

----------------------------------------------------------------------------
(* Properties of the CORS origin list, checked under SpecCors *)

C6_ExpectedOrigins(list, eco) ==
    IF eco.allowCors.kind = "array"
    THEN /\ Len(list) = 1 + Len(eco.allowCors.items)
         /\ list[1] = eco.ui
         /\ \A i \in 1..Len(eco.allowCors.items) : list[i + 1] = eco.allowCors.items[i]
    ELSE list = <<eco.ui>>

\* C6: the origin list is [ui] when allowCors is absent, empty or no
\* sequence, and [ui, o1, ..., on] in that order when allowCors is
\* [o1, ..., on]; building it twice from one configuration gives equal lists
\* and leaves allowCors unchanged.
C6_CorsOrigins ==
    /\ [](/\ \A i \in 1..Len(policies) : C6_ExpectedOrigins(policies[i].origin, ecosystem)
          /\ \A i, j \in 1..Len(policies) : policies[i] = policies[j])
    /\ [][ecosystem' = ecosystem]_vars

C6_Witness ==
    /\ Len(policies) = 2
    /\ ecosystem.allowCors.kind = "array"
    /\ Len(ecosystem.allowCors.items) = 2
    /\ policies[2].origin = <<ecosystem.ui>> \o ecosystem.allowCors.items

----------------------------------------------------------------------------
(* Properties of prettyPrintErrors, checked under SpecErr *)

Answered == reply.kind = "response"
HasStack(err) == err.stack \notin {"absent", ""}

\* C7: for a failure response exactly one record tagged ['server','error'] is
\* logged, before the body is returned, when the status code is 500, and none
\* for any other status code; the record carries the failure's stack when it
\* has one, else its message.
C7_LogsOnly500 ==
    Answered =>
        /\ request.payload.statusCode = 500 =>
               /\ reqLog = <<[tags |-> <<"server", "error">>,
                              data |-> IF HasStack(request)
                                       THEN request.stack ELSE request.message]>>
               /\ reqTrace = <<"request.log", "reply", "code">>
        /\ request.payload.statusCode # 500 =>
               /\ reqLog = <<>>
               /\ reqTrace = <<"reply", "code">>

C7_Witness ==
    /\ Answered
    /\ request.payload.statusCode = 500
    /\ request.stack = "absent"
    /\ Len(reqLog) = 1

\* C8 as stated: a failure carrying a data attribute, whatever its value
\* (falsy values included), has that data unchanged in the body; a failure
\* without a data attribute has no data key in the body.
C8_DataAttributeCopied ==
    Answered =>
        /\ request.data # "absent" =>
               ("data" \in DOMAIN reply.body /\ reply.body["data"] = request.data)
        /\ request.data = "absent" => "data" \notin DOMAIN reply.body

\* C8 as amended: a failure whose data is truthy has that data unchanged in
\* the body; a failure without a data attribute, or whose data is falsy
\* (undefined, null, 0, false, the empty string), has no data key in the body.
C8_TruthyDataCopied ==
    Answered =>
        /\ Truthy(Get(request.data)) =>
               ("data" \in DOMAIN reply.body /\ reply.body["data"] = request.data)
        /\ ~Truthy(Get(request.data)) => "data" \notin DOMAIN reply.body

C8_Witness ==
    /\ Answered
    /\ request.data = "{reason:db}"
    /\ "data" \in DOMAIN reply.body

\* C9 as stated: statusCode, error and message of the body are all taken from
\* output.payload; the body's message equals the payload's message even when
\* the failure's own message differs.
C9_BodyFromPayload ==
    Answered =>
        /\ reply.body["statusCode"] = request.payload.statusCode
        /\ reply.body["error"] = request.payload.error
        /\ reply.body["message"] = request.payload.message

\* C9 as amended: statusCode and error of the body are taken from
\* output.payload, and message is the failure's own message (err.message),
\* also when the payload's message differs from it.
C9_MessageFromFailure ==
    Answered =>
        /\ reply.body["statusCode"] = request.payload.statusCode
        /\ reply.body["error"] = request.payload.error
        /\ reply.body["message"] = request.message

C9_Witness ==
    /\ Answered
    /\ request.payload.statusCode = 500
    /\ request.payload.message = "An internal server error occurred"
    /\ request.message = "db down"

\* C10: every body sent for a failure has the keys statusCode, error and
\* message, no key besides those and data (so never the stack), and goes out
\* with an HTTP status code equal to its statusCode.
C10_BodyShape ==
    Answered =>
        /\ {"statusCode", "error", "message"} \subseteq DOMAIN reply.body
        /\ DOMAIN reply.body \subseteq {"statusCode", "error", "message", "data"}
        /\ reply.code = reply.body["statusCode"]

C10_Witness ==
    /\ Answered
    /\ HasStack(request)
    /\ DOMAIN reply.body = {"statusCode", "error", "message", "data"}
    /\ reply.code = 503

\* C11: when the outgoing response is not a Boom failure, the hook logs
\* nothing, builds no replacement body, leaves the response and its status
\* code as they are, and calls reply.continue() exactly once.
C11_PlainResponsePassesThrough ==
    (reply.kind # "none" /\ ~request.isBoom) =>
        /\ reply.kind = "continue"
        /\ reply.continued = 1
        /\ reqLog = <<>>
        /\ DOMAIN reply.body = {}
        /\ reply.code = request.statusCode
        /\ reqTrace = <<"reply.continue">>

C11_Witness ==
    /\ ~request.isBoom
    /\ request.statusCode = 404
    /\ reply.kind = "continue"
    /\ reply.continued = 1

----------------------------------------------------------------------------
(* Properties of the token generators, checked under SpecCalls *)

\* C12: after a bootstrap whose registration resolved, the build-domain token
\* generator called with (buildId, metadata, scmContext, expiresIn) calls
\* auth.generateProfile once with (buildId, scmContext, ['temporal'], metadata),
\* then auth.generateToken once with (that profile, expiresIn), and returns
\* generateToken's result.
C12_BuildTokenGenCalls ==
    (tokenCall.gen = "build" /\ tokenCall.threw = "none") =>
        /\ registrar.state = "resolved"
        /\ Len(authCalls) = 2
        /\ authCalls[1].method = "generateProfile"
        /\ authCalls[1].nargs = 4
        /\ authCalls[1].subject = tokenCall.subject
        /\ authCalls[1].scmContext = tokenCall.scmContext
        /\ authCalls[1].scope = <<"temporal">>
        /\ authCalls[1].metadata = tokenCall.metadata
        /\ authCalls[2].method = "generateToken"
        /\ authCalls[2].nargs = 2
        /\ authCalls[2].profile =
               generateProfile(authCalls[1].subject, authCalls[1].scmContext,
                               authCalls[1].scope, authCalls[1].metadata)
        /\ authCalls[2].expiresIn = Get(tokenCall.fourth)
        /\ tokenCall.result = generateToken(authCalls[2].profile, authCalls[2].expiresIn)

C12_Witness ==
    /\ tokenCall.gen = "build"
    /\ tokenCall.subject = "b1"
    /\ tokenCall.metadata = "{}"
    /\ tokenCall.scmContext = "gh"
    /\ tokenCall.fourth = "3600"
    /\ Len(authCalls) = 2

\* C13: after a bootstrap whose registration resolved, the job-domain token
\* generator called with (username, metadata, scmContext) calls
\* auth.generateProfile once with (username, scmContext, ['user'], metadata),
\* then auth.generateToken once with that profile and no expiry argument, also
\* when the caller passes a fourth argument; the scope is never 'temporal'.
C13_JobTokenGenCalls ==
    (tokenCall.gen = "job" /\ tokenCall.threw = "none") =>
        /\ registrar.state = "resolved"
        /\ Len(authCalls) = 2
        /\ authCalls[1].method = "generateProfile"
        /\ authCalls[1].nargs = 4
        /\ authCalls[1].subject = tokenCall.subject
        /\ authCalls[1].scmContext = tokenCall.scmContext
        /\ authCalls[1].scope = <<"user">>
        /\ authCalls[1].metadata = tokenCall.metadata
        /\ authCalls[2].method = "generateToken"
        /\ authCalls[2].nargs = 1
        /\ authCalls[2].expiresIn = "absent"
        /\ authCalls[2].profile =
               generateProfile(authCalls[1].subject, authCalls[1].scmContext,
                               authCalls[1].scope, authCalls[1].metadata)
        /\ \A i \in 1..Len(authCalls) : "temporal" \notin Range(authCalls[i].scope)

C13_Witness ==
    /\ tokenCall.gen = "job"
    /\ tokenCall.subject = "alice"
    /\ tokenCall.fourth = "3600"
    /\ Len(authCalls) = 2
    /\ authCalls[2].nargs = 1

ClosuresInstalled ==
    /\ buildFactory.tokenGen = "closure:temporal"
    /\ jobFactory.tokenGen = "closure:user"

\* C20: the wiring does not read the auth capability; the closures look up
\* server.plugins.auth at each call.  A run whose registrar resolved without
\* auth still installs both closures and invokes server.start, the missing
\* capability fails only when a token generator is called, and a capability
\* installed or replaced after the wiring is the one later calls use.
C20_AuthLookedUpAtCallTime ==
    /\ [](/\ (/\ registrar.state = "resolved"
              /\ config = [buildFactory |-> "ok", jobFactory |-> "ok"]
              /\ plugins.shutdown # "throws")
             => (ClosuresInstalled /\ Performed({"server.start"}) /\ pc # "Idle"
                 /\ promise.state # "rejected")
          /\ tokenCall.threw = "TypeError" => authCalls = <<>>
          /\ (tokenCall.gen # "none" /\ tokenCall.threw = "none") => Len(authCalls) = 2)
    /\ [][tokenCalls' # tokenCalls =>
             /\ (tokenCall'.threw = "TypeError") <=> (plugins.auth = "absent")
             /\ \A i \in 1..Len(authCalls') : authCalls'[i].on = plugins.auth]_vars

C20_Witness ==
    /\ pc = "Starting"
    /\ plugins.auth = "absent"
    /\ ClosuresInstalled
    /\ tokenCall.gen = "job"
    /\ tokenCall.threw = "TypeError"

----------------------------------------------------------------------------
(* Properties of the shutdown task, checked under SpecTask and SpecTaskFair *)

TaskCount(op) == Cardinality({i \in 1..Len(taskTrace) : taskTrace[i] = op})
TaskBefore(a, b) ==
    \A j \in 1..Len(taskTrace) : taskTrace[j] = b => \E i \in 1..(j - 1) : taskTrace[i] = a
InfoLogs == {i \in 1..Len(logs) : logs[i].level = "info"}
Settled(p) == p.state \in {"resolved", "rejected"}

\* C17: the bootstrap never runs the registered task (no bootstrap state has
\* called cleanUp()); each time the coordinator invokes it, it calls
\* jobFactory.cleanUp() exactly once, logs the completion message only after
\* cleanUp() resolved, and resolves its promise only after that log.
C17_TaskRunsOnlyWhenInvoked ==
    /\ ~Performed({"jobFactory.cleanUp", "logger.info"})
    /\ taskRuns = 0 => (cleanUp = NotCalled /\ taskTrace = <<>> /\ InfoLogs = {})
    /\ taskRuns > 0 =>
           /\ TaskCount("jobFactory.cleanUp") = 1
           /\ taskTrace[1] = "jobFactory.cleanUp"
    /\ Cardinality(InfoLogs) <= taskRuns
    /\ TaskCount("logger.info") <= 1
    /\ TaskCount("resolve") <= 1
    /\ TaskBefore("cleanUp:resolved", "logger.info")
    /\ TaskBefore("logger.info", "resolve")
    /\ taskPromise.state = "resolved" <=> TaskCount("resolve") = 1
    /\ cleanUp.state = "resolved" => TaskCount("logger.info") = 1

C17_Witness ==
    /\ taskRuns = 2
    /\ cleanUp.state = "resolved"
    /\ taskTrace = <<"jobFactory.cleanUp", "cleanUp:resolved", "logger.info", "resolve">>
    /\ taskPromise.state = "resolved"

\* C19: whenever the coordinator has invoked the task and cleanUp() settles,
\* resolved or rejected, the task's promise eventually settles; it is never
\* left pending for ever after cleanUp() rejected.
C19_TaskPromiseSettles ==
    [](Settled(cleanUp) => <>Settled(taskPromise))

============================================================================
